---- MODULE Spec2Model ----
(***************************************************************************)
(* Model of the chefs-cam frontend: the amount parser / formatter and the  *)
(* serving adjustment of the recipe details page, and the result filters   *)
(* of the results page.                                                    *)
(*                                                                         *)
(* JavaScript strings are sequences of one-character strings, so parsing   *)
(* and formatting are computed character by character.  JavaScript numbers *)
(* are exact non-negative rationals [k |-> "fin", n, d] in lowest terms,   *)
(* plus the two special values NaN and Infinity; IEEE rounding error is    *)
(* not modelled.                                                           *)
(***************************************************************************)
EXTENDS Integers, Sequences, FiniteSets, TLC

\* ------------------------------------------------------------------ bounds
\* longest generated amount string
MaxGenLen == 4
\* highest count the + control is pressed to: counts 2..MaxServings take the
\* local branch of handleServingsChange, count 1 the backend branch
MaxServings == 6
\* getById requests in flight at once
MaxPending == 1

\* ------------------------------------------------------- JavaScript numbers
RECURSIVE GCD(_, _)
GCD(a, b) == IF b = 0 THEN a ELSE GCD(b, a % b)

Fin(n, d) == LET g == GCD(n, d) IN [k |-> "fin", n |-> n \div g, d |-> d \div g]
NaN == [k |-> "nan", n |-> 0, d |-> 1]
Infinity == [k |-> "inf", n |-> 0, d |-> 1]
Zero == Fin(0, 1)
Int2Num(i) == Fin(i, 1)

IsFin(x) == x.k = "fin"
IsNaN(x) == x.k = "nan"

\* a + b
JSAdd(a, b) ==
  IF IsNaN(a) \/ IsNaN(b) THEN NaN
  ELSE IF a.k = "inf" \/ b.k = "inf" THEN Infinity
  ELSE Fin(a.n * b.d + b.n * a.d, a.d * b.d)

\* a / b
JSDiv(a, b) ==
  IF IsNaN(a) \/ IsNaN(b) THEN NaN
  ELSE IF a.k = "inf" THEN (IF b.k = "inf" THEN NaN ELSE Infinity)
  ELSE IF b.k = "inf" THEN Zero
  ELSE IF b.n = 0 THEN (IF a.n = 0 THEN NaN ELSE Infinity)
  ELSE Fin(a.n * b.d, a.d * b.n)

\* a * b
JSMul(a, b) ==
  IF IsNaN(a) \/ IsNaN(b) THEN NaN
  ELSE IF a.k = "inf" THEN (IF b.k = "fin" /\ b.n = 0 THEN NaN ELSE Infinity)
  ELSE IF b.k = "inf" THEN (IF a.n = 0 THEN NaN ELSE Infinity)
  ELSE Fin(a.n * b.n, a.d * b.d)

\* a > 0
JSPositive(a) == a.k = "inf" \/ (a.k = "fin" /\ a.n > 0)

\* Number.isInteger(a)
JSIsInteger(a) == a.k = "fin" /\ a.d = 1

\* Math.round(a) for a finite: floor(a + 1/2)
MathRound(a) == (2 * a.n + a.d) \div (2 * a.d)

\* ------------------------------------------------------- JavaScript strings
Digits == {"0", "1", "2", "3", "4", "5", "6", "7", "8", "9"}
DigitVal == [c \in Digits |->
               CASE c = "0" -> 0 [] c = "1" -> 1 [] c = "2" -> 2 [] c = "3" -> 3
                 [] c = "4" -> 4 [] c = "5" -> 5 [] c = "6" -> 6 [] c = "7" -> 7
                 [] c = "8" -> 8 [] c = "9" -> 9]
DigitChar == <<"0", "1", "2", "3", "4", "5", "6", "7", "8", "9">>
WhiteSpace == {" ", "\t"}

IsDigits(s) == Len(s) > 0 /\ \A i \in 1..Len(s) : s[i] \in Digits
IsSpaces(s) == Len(s) > 0 /\ \A i \in 1..Len(s) : s[i] \in WhiteSpace

RECURSIVE DigitsVal(_)
DigitsVal(s) == IF s = <<>> THEN 0
                ELSE 10 * DigitsVal(SubSeq(s, 1, Len(s) - 1)) + DigitVal[s[Len(s)]]

RECURSIVE Pow10(_)
Pow10(e) == IF e = 0 THEN 1 ELSE 10 * Pow10(e - 1)

\* String(i) for an integer i >= 0
RECURSIVE IntStr(_)
IntStr(i) == IF i < 10 THEN <<DigitChar[i + 1]>>
             ELSE Append(IntStr(i \div 10), DigitChar[(i % 10) + 1])

\* s.trim()
RECURSIVE TrimLeft(_)
TrimLeft(s) == IF s # <<>> /\ s[1] \in WhiteSpace THEN TrimLeft(Tail(s)) ELSE s
RECURSIVE TrimRight(_)
TrimRight(s) == IF s # <<>> /\ s[Len(s)] \in WhiteSpace
                THEN TrimRight(SubSeq(s, 1, Len(s) - 1)) ELSE s
Trim(s) == TrimRight(TrimLeft(s))

\* s.toLowerCase()
LowerChar(c) == CASE c = "T" -> "t" [] c = "X" -> "x" [] c = "E" -> "e" [] OTHER -> c
ToLowerCase(s) == [i \in 1..Len(s) |-> LowerChar(s[i])]

\* s.includes(sub)
Includes(s, sub) ==
  \E i \in 1..(Len(s) - Len(sub) + 1) : SubSeq(s, i, i + Len(sub) - 1) = sub

\* s.split(sep) for a one-character separator
RECURSIVE Split(_, _)
Split(s, sep) ==
  IF \A i \in 1..Len(s) : s[i] # sep THEN <<s>>
  ELSE LET p == CHOOSE i \in 1..Len(s) :
                  s[i] = sep /\ \A j \in 1..(i - 1) : s[j] # sep
       IN <<SubSeq(s, 1, p - 1)>> \o Split(SubSeq(s, p + 1, Len(s)), sep)

\* array.filter(Boolean) on an array of strings: drops the empty strings
RECURSIVE FilterNonEmpty(_)
FilterNonEmpty(a) ==
  IF a = <<>> THEN <<>>
  ELSE (IF Head(a) = <<>> THEN <<>> ELSE <<Head(a)>>) \o FilterNonEmpty(Tail(a))

\* A decimal literal without exponent: digits, digits., .digits, digits.digits
IsDecimalLiteral(t) ==
  \/ IsDigits(t)
  \/ \E p \in 1..Len(t) :
       /\ t[p] = "."
       /\ Len(t) > 1
       /\ (p = 1 \/ IsDigits(SubSeq(t, 1, p - 1)))
       /\ (p = Len(t) \/ IsDigits(SubSeq(t, p + 1, Len(t))))

DecimalLiteralVal(t) ==
  IF IsDigits(t) THEN Fin(DigitsVal(t), 1)
  ELSE LET p == CHOOSE i \in 1..Len(t) : t[i] = "."
           l == SubSeq(t, 1, p - 1)
           r == SubSeq(t, p + 1, Len(t))
       IN Fin(DigitsVal(l) * Pow10(Len(r)) + DigitsVal(r), Pow10(Len(r)))

IsExponentLiteral(t) ==
  \E p \in 2..(Len(t) - 1) :
    /\ t[p] \in {"e", "E"}
    /\ IsDecimalLiteral(SubSeq(t, 1, p - 1))
    /\ IsDigits(SubSeq(t, p + 1, Len(t)))

ExponentLiteralVal(t) ==
  LET p == CHOOSE i \in 2..(Len(t) - 1) : t[i] \in {"e", "E"}
  IN JSMul(DecimalLiteralVal(SubSeq(t, 1, p - 1)),
           Fin(Pow10(DigitsVal(SubSeq(t, p + 1, Len(t)))), 1))

\* hexadecimal literal 0x..., restricted to the hex digits 0-9
IsHexLiteral(t) ==
  Len(t) > 2 /\ t[1] = "0" /\ t[2] \in {"x", "X"} /\ IsDigits(SubSeq(t, 3, Len(t)))

RECURSIVE HexVal(_)
HexVal(s) == IF s = <<>> THEN 0
             ELSE 16 * HexVal(SubSeq(s, 1, Len(s) - 1)) + DigitVal[s[Len(s)]]

InfinityStr == <<"I", "n", "f", "i", "n", "i", "t", "y">>
NaNStr == <<"N", "a", "N">>

\* Number(s): the StringToNumber conversion
JSNumber(s) ==
  LET t == Trim(s) IN
  IF t = <<>> THEN Zero
  ELSE IF IsDecimalLiteral(t) THEN DecimalLiteralVal(t)
  ELSE IF IsExponentLiteral(t) THEN ExponentLiteralVal(t)
  ELSE IF IsHexLiteral(t) THEN Fin(HexVal(SubSeq(t, 3, Len(t))), 1)
  ELSE IF t = InfinityStr THEN Infinity
  ELSE NaN

\* String(x) for a number x >= 0 with at most one decimal place
NumStr(x) ==
  IF x.k = "nan" THEN NaNStr
  ELSE IF x.k = "inf" THEN InfinityStr
  ELSE LET r == (10 * x.n) \div x.d
       IN IF r % 10 = 0 THEN IntStr(r \div 10)
          ELSE IntStr(r \div 10) \o <<".">> \o <<DigitChar[(r % 10) + 1]>>

\* ------------------------------------------- decimal comparison of numbers
\* Limb == 10^5: a decimal fraction with ten places is <<hi, lo>>, worth
\* (hi * Limb + lo) / 10^10.
Limb == Pow10(5)

\* The first `places` decimal digits of r / q (0 <= r < q), by long division.
RECURSIVE Expand(_, _, _)
Expand(r, q, places) ==
  IF places = 0 THEN [v |-> 0, r |-> r]
  ELSE LET e == Expand(r, q, places - 1)
       IN [v |-> 10 * e.v + ((10 * e.r) \div q), r |-> (10 * e.r) % q]

\* x in ten decimal places, for a finite x with 0 <= x < 1
Dec10(x) ==
  LET e1 == Expand(x.n, x.d, 5)
      e2 == Expand(e1.r, x.d, 5)
  IN [hi |-> e1.v, lo |-> e2.v, exact |-> e2.r = 0]

DecSub(a, b) == IF a[2] >= b[2] THEN <<a[1] - b[1], a[2] - b[2]>>
                ELSE <<a[1] - b[1] - 1, a[2] + Limb - b[2]>>
DecAdd(a, b) == IF a[2] + b[2] < Limb THEN <<a[1] + b[1], a[2] + b[2]>>
                ELSE <<a[1] + b[1] + 1, a[2] + b[2] - Limb>>

\* Math.abs(x - key) < tol, for a finite x >= 0 and decimals 0 < tol < key,
\* key + tol < 1
AbsDiffLess(x, key, tol) ==
  /\ x.n < x.d
  /\ LET e == Dec10(x)
         lw == DecSub(key, tol)
         up == DecAdd(key, tol)
     IN /\ \/ e.hi > lw[1]
           \/ e.hi = lw[1] /\ e.lo > lw[2]
           \/ e.hi = lw[1] /\ e.lo = lw[2] /\ ~e.exact
        /\ \/ e.hi < up[1]
           \/ e.hi = up[1] /\ e.lo < up[2]

\* ------------------------------------------------ details page: amounts
\* /^\d+\s+\d+\/\d+$/.test(s)
MixedNumberRe(s) ==
  \E i \in 1..Len(s), j \in 1..Len(s), k \in 1..Len(s) :
    /\ i < j /\ j + 1 < k /\ k < Len(s)
    /\ IsDigits(SubSeq(s, 1, i))
    /\ IsSpaces(SubSeq(s, i + 1, j))
    /\ IsDigits(SubSeq(s, j + 1, k - 1))
    /\ s[k] = "/"
    /\ IsDigits(SubSeq(s, k + 1, Len(s)))

\* /^\d+\/\d+$/.test(s)
SimpleFractionRe(s) ==
  \E k \in 2..(Len(s) - 1) :
    /\ IsDigits(SubSeq(s, 1, k - 1))
    /\ s[k] = "/"
    /\ IsDigits(SubSeq(s, k + 1, Len(s)))

ToTaste == <<"t", "o", " ", "t", "a", "s", "t", "e">>
Thrown == [k |-> "throw", n |-> 0, d |-> 1]

\* [num, den] = frac.split('/').map(Number); num / den
\* (a missing second element is undefined, and num / undefined is NaN)
SplitFraction(frac) ==
  LET fr == Split(frac, "/")
      num == JSNumber(fr[1])
      den == IF Len(fr) >= 2 THEN JSNumber(fr[2]) ELSE NaN
  IN JSDiv(num, den)

parseAmount(amountStr) ==
  IF amountStr = <<>> THEN Zero
  ELSE LET s == Trim(amountStr) IN
    IF s = <<>> \/ Includes(ToLowerCase(s), ToTaste) THEN Zero
    ELSE IF MixedNumberRe(s)
      THEN LET parts == Split(s, " ") IN
           \* const [whole, frac] = s.split(' '): frac is undefined when the
           \* white space holds no space character, and frac.split throws
           IF Len(parts) < 2 THEN Thrown
           ELSE JSAdd(JSNumber(parts[1]), SplitFraction(parts[2]))
    ELSE IF SimpleFractionRe(s) THEN SplitFraction(s)
    ELSE LET n == JSNumber(s) IN IF ~IsNaN(n) THEN n ELSE Zero

\* the keys of `common`, in ten decimal places, in Object.entries order
CommonKeys == << <<12500, 0>>, <<25000, 0>>, <<33333, 33333>>, <<50000, 0>>,
                <<66666, 66667>>, <<75000, 0>>, <<87500, 0>> >>
CommonFractions == << <<"1", "/", "8">>, <<"1", "/", "4">>, <<"1", "/", "3">>,
                      <<"1", "/", "2">>, <<"2", "/", "3">>, <<"3", "/", "4">>,
                      <<"7", "/", "8">> >>
Tolerance == <<2000, 0>>

\* (mutant: Math.floor in place of Math.round)
OneDecimal_floor(n) == IF IsFin(n) THEN NumStr(Fin((10 * n.n) \div n.d, 10)) ELSE NumStr(n)

\* String(Math.round(n * 10) / 10)
OneDecimal(n) == IF IsFin(n) THEN NumStr(Fin(MathRound(JSMul(n, Int2Num(10))), 10))
                 ELSE NumStr(n)

\* (mutant: the common fractions matched against the fractional remainder, and
\* a value above 1 rendered as a mixed number)
formatAmount_remainder(n) ==
  IF IsFin(n) /\ n.n = 0 THEN <<"0">>
  ELSE IF JSIsInteger(n) THEN IntStr(n.n)
  ELSE IF IsFin(n) /\ \E i \in 1..7 :
            AbsDiffLess(Fin(n.n % n.d, n.d), CommonKeys[i], Tolerance)
    THEN LET f == CommonFractions[CHOOSE i \in 1..7 :
                    AbsDiffLess(Fin(n.n % n.d, n.d), CommonKeys[i], Tolerance)]
         IN IF n.n < n.d THEN f ELSE IntStr(n.n \div n.d) \o <<" ">> \o f
  ELSE OneDecimal(n)

formatAmount(n) ==
  IF IsFin(n) /\ n.n = 0 THEN <<"0">>
  ELSE IF JSIsInteger(n) THEN IntStr(n.n)
  ELSE IF IsFin(n) /\ \E i \in 1..7 : AbsDiffLess(n, CommonKeys[i], Tolerance)
    THEN CommonFractions[CHOOSE i \in 1..7 :
                           /\ AbsDiffLess(n, CommonKeys[i], Tolerance)
                           /\ \A j \in 1..(i - 1) :
                                ~AbsDiffLess(n, CommonKeys[j], Tolerance)]
  ELSE OneDecimal(n)

\* ------------------------------------------------ amount utility module
amountUtil_parseAmount(amountStr) ==
  IF amountStr = <<>> THEN Zero
  ELSE LET s == ToLowerCase(Trim(amountStr))
           parts == FilterNonEmpty(Split(s, " "))
           mixedOk == /\ Includes(s, <<" ">>)
                      /\ Len(parts) = 2
                      /\ Includes(parts[2], <<"/">>)
           whole == JSNumber(parts[1])
           mfrac == Split(parts[2], "/")
           mnum == JSNumber(mfrac[1])
           mden == JSNumber(mfrac[2])
           frac == Split(s, "/")
           num == JSNumber(frac[1])
           den == JSNumber(frac[2])
           val == JSNumber(s)
       IN
    IF s = <<>> THEN Zero
    ELSE IF mixedOk /\ ~IsNaN(whole) /\ ~IsNaN(mnum) /\ ~IsNaN(mden) /\ mden # Zero
      THEN JSAdd(whole, JSDiv(mnum, mden))
    ELSE IF Includes(s, <<"/">>) /\ ~IsNaN(num) /\ ~IsNaN(den) /\ den # Zero
      THEN JSDiv(num, den)
    ELSE IF ~IsNaN(val) THEN val
    ELSE Zero

amountUtil_Keys == << <<12500, 0>>, <<25000, 0>>, <<33300, 0>>, <<50000, 0>>,
                     <<66600, 0>>, <<75000, 0>>, <<87500, 0>> >>
amountUtil_Tolerance == <<1000, 0>>

amountUtil_formatAmount(amount) ==
  IF IsNaN(amount) \/ (IsFin(amount) /\ amount.n = 0) THEN <<"0">>
  ELSE IF JSIsInteger(amount) THEN IntStr(amount.n)
  ELSE IF IsFin(amount)
          /\ \E i \in 1..7 : AbsDiffLess(amount, amountUtil_Keys[i], amountUtil_Tolerance)
    THEN CommonFractions[CHOOSE i \in 1..7 :
                           /\ AbsDiffLess(amount, amountUtil_Keys[i], amountUtil_Tolerance)
                           /\ \A j \in 1..(i - 1) :
                                ~AbsDiffLess(amount, amountUtil_Keys[j], amountUtil_Tolerance)]
  ELSE OneDecimal(amount)

\* ------------------------------------- details page: adjustIngredientsLocally
\* (mutant: the two serving counts exchanged)
AdjustedValue_swapped(p, originalServings, desiredServings) ==
  JSMul(JSDiv(p, Int2Num(IF desiredServings = 0 THEN 1 ELSE desiredServings)),
        Int2Num(originalServings))

\* perServing = parsed / (originalServings || 1); adjusted = perServing * desiredServings
AdjustedValue(p, originalServings, desiredServings) ==
  JSMul(JSDiv(p, Int2Num(IF originalServings = 0 THEN 1 ELSE originalServings)),
        Int2Num(desiredServings))

\* the body of normalized.map(...) for one ingredient object
AdjustLine(ing, originalServings, desiredServings) ==
  LET p == parseAmount(ing.amount) IN
  IF JSPositive(p)
  THEN [name |-> ing.name,
        amount |-> formatAmount(AdjustedValue(p, originalServings, desiredServings)),
        unit |-> ing.unit]
  ELSE [name |-> ing.name, amount |-> <<>>, unit |-> ""]

\* adjustIngredientsLocally on a list of ingredient objects; threw is TRUE when
\* parseAmount throws on one of them
adjustIngredientsLocally(ingredients, originalServings, desiredServings) ==
  IF \E i \in 1..Len(ingredients) : parseAmount(ingredients[i].amount) = Thrown
  THEN [threw |-> TRUE, lines |-> <<>>]
  ELSE [threw |-> FALSE,
        lines |-> [i \in 1..Len(ingredients) |->
                     AdjustLine(ingredients[i], originalServings, desiredServings)]]

\* ------------------------------------------------------------- inputs
MaxScale == 8
MaxWhole == 3
MaxNum == 3
MaxDen == 4

GenAlphabet == {"0", "1", "2", " ", "/", "."}
GenStrings == UNION {[1..l -> GenAlphabet] : l \in 0..MaxGenLen}

\* amounts written in the four numeric forms, with the value n/d they denote
IntegerForms == {[s |-> IntStr(w), n |-> w, d |-> 1] : w \in 1..(4 * MaxWhole)}
DecimalForms ==
  {[s |-> IntStr(w) \o <<".">> \o IntStr(f), n |-> 10 * w + f, d |-> 10] :
     w \in 0..MaxWhole, f \in 1..9}
  \cup {[s |-> IntStr(w) \o <<".", "0">> \o IntStr(f), n |-> 100 * w + f, d |-> 100] :
     w \in 0..MaxWhole, f \in 1..9}
FractionForms ==
  {[s |-> IntStr(fr[1]) \o <<"/">> \o IntStr(fr[2]), n |-> fr[1], d |-> fr[2]] :
     fr \in (1..MaxNum) \X (1..MaxDen)}
MixedForms ==
  {[s |-> IntStr(m[1]) \o <<" ">> \o IntStr(m[2]) \o <<"/">> \o IntStr(m[3]),
    n |-> m[1] * m[3] + m[2], d |-> m[3]] :
     m \in (1..MaxWhole) \X (1..MaxNum) \X (2..MaxDen)}
NumericForms == IntegerForms \cup DecimalForms \cup FractionForms \cup MixedForms

\* amounts that are not numbers, or are written irregularly
OddStrings ==
  { <<>>, ToTaste, <<"T", "o", " ", "t", "a", "s", "t", "e">>,
    <<"1", "e", "3">>, <<"0", "x", "1", "0">>, InfinityStr,
    <<"1", " ", " ", "1", "/", "2">>, <<"1", "\t", "1", "/", "2">>,
    <<"1", " ", "1", "/", "0">>, <<" ", "2", " ">>, <<"1", "/", "2", "/", "3">>,
    <<"1", ".", "5", "/", "2">> }

\* the amounts given to the scaler, and the strings given to the parsers
AmountStrings == {f.s : f \in NumericForms} \cup OddStrings
ParserStrings == GenStrings \cup AmountStrings
Units == {"", "cup"}


\* ----------------------------------------------- the amount calculations
VARIABLES
  ingLine,   \* the ingredient line given to the scaler: [name, amount, unit]
  pc,        \* "input", "parsed", "scaled", "back", "formatted"
  parsed,    \* [page, util]: what the two parseAmount return for ingLine.amount
  adj,       \* [s0, s1, handed, threw, out]: adjustment from s0 to s1
  rev,       \* [handed, threw, out]: adjustment of adj.out back from s1 to s0
  fmt        \* [page, util]: the two formatAmount applied to adj.handed

avars == <<ingLine, pc, parsed, adj, rev, fmt>>

NoNum == [k |-> "none", n |-> 0, d |-> 1]
NoLine == [name |-> "", amount |-> <<>>, unit |-> ""]
NoAdj == [s0 |-> 0, s1 |-> 0, handed |-> NoNum, threw |-> FALSE, out |-> NoLine]
NoRev == [handed |-> NoNum, threw |-> FALSE, out |-> NoLine]
NoPair == [page |-> NoNum, util |-> NoNum]
NoFmt == [page |-> <<>>, util |-> <<>>]

\* ------------------------------------------------------ the details page
VARIABLES
  selectedRecipe,      \* AppContext.selectedRecipe (NoRecipe: null)
  currentRecipe,       \* DetailsPage state currentRecipe (NoRecipe: null)
  servings,            \* DetailsPage state servings
  originalIngredients, \* DetailsPage state originalIngredients
  originalNutrition,   \* DetailsPage state originalNutrition
  requests,            \* recipesAPI.getById calls awaiting their response,
                       \* each with the values its handler closed over
  failures,            \* getById calls that have failed since the page opened
  last                 \* the last handler that ran: [op, arg, path]

dvars == <<selectedRecipe, currentRecipe, servings, originalIngredients,
           originalNutrition, requests, failures, last>>

\* ------------------------------------------------------ the results page
VARIABLES
  filters,        \* AppContext.filters: [dietary, cookingTime, difficulty, cuisine]
  searchResults   \* AppContext.searchResults

rvars == <<filters, searchResults>>

\* the home page (InputPage) and the page shown
VARIABLES
  ingredients,        \* InputPage: the ingredient list
  currentInput,       \* InputPage: the text field
  loading,            \* InputPage: a search is running
  imageLoading,       \* InputPage: an image analysis is running
  analysis,           \* the handleImageUpload call in flight, with its closure
  search,             \* the generateRecipes call in flight, with its arguments
  searchIngredients,  \* AppContext.searchIngredients
  currentPage,        \* AppContext.currentPage
  hlast               \* the last home page call, with the lists it started from

hvars == <<ingredients, currentInput, loading, imageLoading, analysis, search,
           searchIngredients, currentPage, hlast>>

\* the backend's result cache
VARIABLES
  cache,          \* canonical query -> Cache Entry
  clock,          \* the time, in seconds
  corpusVersion,  \* the corpus snapshot the Matcher reads
  clast           \* the last cache call and what it returned

cvars == <<cache, clock, corpusVersion, clast>>

\* authentication: AuthProvider and the token of lib/api
VARIABLES
  user,         \* AuthProvider: user ("" for null)
  authLoading,  \* AuthProvider: loading
  authToken,    \* lib/api: authToken ("" for null and the empty string)
  localToken,   \* localStorage: authToken ("" when absent)
  check,        \* the startup getCurrentUser call: "none", "todo", "sent", "done"
  calls,        \* login, register and delete calls in flight
  issued,       \* number of login and register calls made
  ulast         \* the last step, with the token it found

uvars == <<user, authLoading, authToken, localToken, check, calls, issued, ulast>>

\* favorites: AppContext favorites, the recipe prop of each card, the
\* details page's currentRecipe (id and is_favorited), the two loading
\* flags, the toggle requests in flight and the last completed toggle
VARIABLES favorites, cardRecipes, favRecipe, isFavoriting, isLoading,
          toggles, flast
fvars == <<favorites, cardRecipes, favRecipe, isFavoriting, isLoading,
           toggles, flast>>

\* rating: DetailsPage state userRating and isRating, the rate requests in
\* flight and the last settled one
VARIABLES userRating, isRating, ratings, glast
gvars == <<userRating, isRating, ratings, glast>>

vars == <<avars, dvars, rvars, hvars, cvars, uvars, fvars, gvars>>

\* ------------------------------------------------------------- the corpus
Ing(name, amount, unit) == [name |-> name, amount |-> amount, unit |-> unit]

NutFields == {"calories", "protein", "carbs", "fat"}

\* Recipe (types/index.ts); 0 stands for an absent original_servings or
\* adjusted_servings, "" for an absent string
NoRecipe ==
  [id |-> 0, servings |-> 0, original_servings |-> 0, adjusted_servings |-> 0,
   calories |-> 0, protein |-> 0, carbs |-> 0, fat |-> 0, ingredients |-> <<>>,
   dietary_tags |-> {}, difficulty |-> "", cooking_time |-> 0, cuisine |-> ""]

Corpus ==
  << [NoRecipe EXCEPT !.id = 1, !.servings = 4,
        !.calories = 800, !.protein = 30, !.carbs = 101, !.fat = 22,
        !.ingredients = << Ing("flour", <<"2">>, "cup"),
                           Ing("milk", <<"1", " ", "1", "/", "2">>, "cup"),
                           Ing("salt", ToTaste, "") >>,
        !.dietary_tags = {"Vegan"}, !.difficulty = "Easy",
        !.cooking_time = 20, !.cuisine = "Italian"],
     [NoRecipe EXCEPT !.id = 2, !.servings = 2,
        !.calories = 450, !.protein = 15, !.carbs = 60, !.fat = 9,
        !.ingredients = << Ing("rice", <<"1", "/", "2">>, "cup"),
                           Ing("oil", <<"1">>, "tbsp") >>,
        !.dietary_tags = {"Vegan", "Gluten-Free"}, !.difficulty = "Medium",
        !.cooking_time = 45, !.cuisine = "Indian"],
     [NoRecipe EXCEPT !.id = 3, !.servings = 6,
        !.calories = 1200, !.protein = 90, !.carbs = 40, !.fat = 75,
        !.ingredients = << Ing("beef", <<"1", ".", "5">>, "lb") >>,
        !.dietary_tags = {}, !.difficulty = "Hard",
        !.cooking_time = 90, !.cuisine = "Italian"] >>

NoLast == [op |-> "none", arg |-> 0, path |-> ""]
NoNutrition == [f \in NutFields |-> 0]
NoFilters == [dietary |-> <<>>, cookingTime |-> "", difficulty |-> "", cuisine |-> ""]

\* the parts of the state a specification does not use
AmountIdle ==
  /\ ingLine = NoLine /\ pc = "idle" /\ parsed = NoPair
  /\ adj = NoAdj /\ rev = NoRev /\ fmt = NoFmt
DetailsIdle ==
  /\ selectedRecipe = NoRecipe /\ currentRecipe = NoRecipe /\ servings = 4
  /\ originalIngredients = <<>> /\ originalNutrition = NoNutrition
  /\ requests = {} /\ failures = 0 /\ last = NoLast
NoAnalysis == [pending |-> FALSE, captured |-> <<>>]
NoSearch == [pending |-> FALSE, ingredients |-> <<>>, dietary |-> <<>>]
NoHLast == [op |-> "none", before |-> <<>>, prior |-> <<>>, arg |-> <<>>]

NoCache == {}
NoCLast == [op |-> "none", key |-> <<>>, at |-> 0, result |-> <<>>,
            computed |-> FALSE, evicted |-> {}]

CacheIdle == cache = NoCache /\ clock = 0 /\ corpusVersion = 0 /\ clast = NoCLast

NoULast == [op |-> "none", before |-> "", sent |-> ""]

AuthIdle ==
  /\ user = "" /\ authLoading = FALSE /\ authToken = "" /\ localToken = ""
  /\ check = "none" /\ calls = {} /\ issued = 0 /\ ulast = NoULast

RecipeIds == {"1", "2"}
NoFavRecipe == [id |-> "", is_favorited |-> FALSE]
NoFLast ==
  [op |-> "none", from |-> "", id |-> "", value |-> FALSE, ids |-> {}]
FavIdle ==
  /\ favorites = {} /\ cardRecipes = [id \in RecipeIds |-> FALSE]
  /\ favRecipe = NoFavRecipe /\ isFavoriting = FALSE /\ isLoading = {}
  /\ toggles = {} /\ flast = NoFLast

NoShown == [ingredients |-> <<>>, adjusted_servings |-> 0,
            original_servings |-> 0, nutrition |-> NoNutrition]
NoGLast == [op |-> "none", rating |-> 0, prior |-> 0, before |-> NoShown]
RateIdle ==
  userRating = 0 /\ isRating = FALSE /\ ratings = {} /\ glast = NoGLast

HomeIdle ==
  /\ ingredients = <<>> /\ currentInput = <<>>
  /\ loading = FALSE /\ imageLoading = FALSE
  /\ analysis = NoAnalysis /\ search = NoSearch
  /\ searchIngredients = <<>> /\ currentPage = "home"
  /\ hlast = NoHLast

ResultsIdle ==
  /\ filters = NoFilters /\ searchResults = <<>>


\* the value the adjustment hands to formatAmount for one line (NoNum when
\* the line is not scaled)
Handed(ing, s0, s1) ==
  LET p == parseAmount(ing.amount) IN
  IF JSPositive(p) THEN AdjustedValue(p, s0, s1) ELSE NoNum

LineInit(amounts, units) ==
  /\ ingLine \in {[name |-> "flour", amount |-> a, unit |-> u] :
                    a \in amounts, u \in units}
  /\ pc = "input"
  /\ parsed = NoPair
  /\ adj = NoAdj
  /\ rev = NoRev
  /\ fmt = NoFmt

ParseAmount ==
  /\ pc = "input"
  /\ pc' = "parsed"
  /\ parsed' = [page |-> parseAmount(ingLine.amount),
                util |-> amountUtil_parseAmount(ingLine.amount)]
  /\ UNCHANGED <<ingLine, adj, rev, fmt>>
  /\ UNCHANGED <<dvars, rvars, hvars, cvars, uvars, fvars, gvars>>

AdjustLocally(s0, s1) ==
  /\ pc = "input"
  /\ pc' = "scaled"
  /\ LET r == adjustIngredientsLocally(<<ingLine>>, s0, s1) IN
       adj' = [s0 |-> s0, s1 |-> s1,
               handed |-> IF r.threw THEN NoNum ELSE Handed(ingLine, s0, s1),
               threw |-> r.threw,
               out |-> IF r.threw THEN NoLine ELSE r.lines[1]]
  /\ parsed' = [page |-> parseAmount(ingLine.amount), util |-> NoNum]
  /\ UNCHANGED <<ingLine, rev, fmt>>
  /\ UNCHANGED <<dvars, rvars, hvars, cvars, uvars, fvars, gvars>>

AdjustBack ==
  /\ pc = "scaled"
  /\ ~adj.threw
  /\ pc' = "back"
  /\ LET r == adjustIngredientsLocally(<<adj.out>>, adj.s1, adj.s0) IN
       rev' = [handed |-> IF r.threw THEN NoNum ELSE Handed(adj.out, adj.s1, adj.s0),
               threw |-> r.threw,
               out |-> IF r.threw THEN NoLine ELSE r.lines[1]]
  /\ UNCHANGED <<ingLine, parsed, adj, fmt>>
  /\ UNCHANGED <<dvars, rvars, hvars, cvars, uvars, fvars, gvars>>

FormatAmount ==
  /\ pc = "scaled"
  /\ adj.handed # NoNum
  /\ pc' = "formatted"
  /\ fmt' = [page |-> formatAmount(adj.handed),
             util |-> amountUtil_formatAmount(adj.handed)]
  /\ UNCHANGED <<ingLine, parsed, adj, rev>>
  /\ UNCHANGED <<dvars, rvars, hvars, cvars, uvars, fvars, gvars>>

\* the parsers on every string of ParserStrings
PInit == LineInit(ParserStrings, {""}) /\ DetailsIdle /\ ResultsIdle /\ HomeIdle /\ CacheIdle
  /\ AuthIdle /\ FavIdle /\ RateIdle
PNext == ParseAmount
SpecParse == PInit /\ [][PNext]_vars

\* the scaler on every amount of AmountStrings, between all serving counts
AInit ==
  LineInit(AmountStrings, Units) /\ DetailsIdle /\ ResultsIdle /\ HomeIdle /\ CacheIdle
  /\ AuthIdle /\ FavIdle /\ RateIdle
ANext ==
  \/ \E s0 \in 1..MaxScale, s1 \in 1..MaxScale : AdjustLocally(s0, s1)
  \/ AdjustBack
  \/ FormatAmount
SpecAmount == AInit /\ [][ANext]_vars

\* ------------------------------------------- the backend (from the spec)
\* the four numeric forms, by shape, on the trimmed string
IsNumericShape(str) ==
  LET s == Trim(str) IN
  \/ IsDecimalLiteral(s)
  \/ \E k \in 2..(Len(s) - 1) :
       /\ s[k] = "/"
       /\ IsDigits(SubSeq(s, k + 1, Len(s)))
       /\ DigitsVal(SubSeq(s, k + 1, Len(s))) # 0
       /\ \/ IsDigits(SubSeq(s, 1, k - 1))
          \/ \E i \in 1..(k - 3) :
               /\ IsDigits(SubSeq(s, 1, i))
               /\ s[i + 1] = " "
               /\ IsDigits(SubSeq(s, i + 2, k - 1))

\* the common culinary fractions, and "within 0.02 of the i-th of them"
CommonValues == << <<1, 8>>, <<1, 4>>, <<1, 3>>, <<1, 2>>, <<2, 3>>, <<3, 4>>, <<7, 8>> >>
NearCommon(x, i) ==
  LET a == x.n * CommonValues[i][2]
      b == CommonValues[i][1] * x.d
  IN (IF a >= b THEN a - b ELSE b - a) * 50 < x.d * CommonValues[i][2]

\* Formatting (spec 4.5, with the fractional-remainder convention of spec 9)
serverFormatAmount(x) ==
  IF x.d = 1 THEN IntStr(x.n)
  ELSE LET w == x.n \div x.d
           r == Fin(x.n % x.d, x.d)
       IN IF \E i \in 1..7 : NearCommon(r, i)
          THEN LET f == CommonFractions[CHOOSE i \in 1..7 : NearCommon(r, i)]
               IN IF w = 0 THEN f ELSE IntStr(w) \o <<" ">> \o f
          ELSE NumStr(Fin(MathRound(Fin(10 * x.n, x.d)), 10))

\* scale (spec 4.5) on one line: a numeric amount a becomes a * s1 / s0, any
\* other amount is passed through
serverScaleLine(ing, s0, s1) ==
  IF IsNumericShape(ing.amount)
  THEN LET a == amountUtil_parseAmount(ing.amount)
       IN [ing EXCEPT !.amount = serverFormatAmount(Fin(a.n * s1, a.d * s0))]
  ELSE ing

RecipeById(id) == Corpus[CHOOSE i \in 1..Len(Corpus) : Corpus[i].id = id]

\* the response to GET /recipes/{id}?servings=n: the Serving Adjustment of
\* spec 3 (original and target serving counts, scaled lines and nutrition)
serverAdjustedRecipe(id, n) ==
  LET base == RecipeById(id) IN
  [base EXCEPT
     !.original_servings = base.servings,
     !.adjusted_servings = n,
     !.ingredients = [i \in 1..Len(base.ingredients) |->
                        serverScaleLine(base.ingredients[i], base.servings, n)],
     !.calories = MathRound(Fin(base.calories * n, base.servings)),
     !.protein = MathRound(Fin(base.protein * n, base.servings)),
     !.carbs = MathRound(Fin(base.carbs * n, base.servings)),
     !.fat = MathRound(Fin(base.fat * n, base.servings))]

\* --------------------------------------------------- details page: actions
MaxFailures == 1

\* the effect on selectedRecipe, run when the page is opened on `recipe`
\* (its ingredients are Ingredient objects, which normalizeInitial returns
\* as they are)
ViewDetails(recipe) ==
  /\ selectedRecipe' = recipe
  /\ originalIngredients' = recipe.ingredients
  /\ originalNutrition' = [f \in NutFields |-> recipe[f]]
  /\ currentRecipe' =
       [recipe EXCEPT !.original_servings =
          IF recipe.servings # 0 THEN recipe.servings
          ELSE IF recipe.original_servings # 0 THEN recipe.original_servings ELSE 4]
  /\ servings' = IF recipe.servings # 0 THEN recipe.servings ELSE 4
  /\ requests' = {}
  /\ failures' = 0
  /\ last' = [op |-> "open", arg |-> recipe.id, path |-> ""]
  \* useState(selectedRecipe?.user_rating || 0), useState(false): the
  \* recipes of the corpus carry no user_rating
  /\ userRating' = 0 /\ isRating' = FALSE /\ ratings' = {}
  /\ glast' = NoGLast
  /\ UNCHANGED <<avars, rvars, hvars, cvars, uvars, fvars>>

\* const original = ... (line 229)
OriginalServings(recipe) ==
  IF recipe.original_servings # 0 THEN recipe.original_servings
  ELSE IF recipe.servings # 0 THEN recipe.servings ELSE 4

\* the recipe set by the local branch (newServings in 2..7)
LocallyAdjusted(recipe, original, newServings) ==
  LET r == adjustIngredientsLocally(originalIngredients, original, newServings)
      multiplier == JSDiv(Int2Num(newServings),
                          Int2Num(IF original = 0 THEN 1 ELSE original))
  IN IF r.threw THEN recipe
     ELSE [recipe EXCEPT
             !.ingredients = r.lines,
             !.adjusted_servings = newServings,
             !.original_servings = original,
             !.calories = MathRound(JSMul(Int2Num(originalNutrition.calories), multiplier)),
             !.protein = MathRound(JSMul(Int2Num(originalNutrition.protein), multiplier)),
             !.carbs = MathRound(JSMul(Int2Num(originalNutrition.carbs), multiplier)),
             !.fat = MathRound(JSMul(Int2Num(originalNutrition.fat), multiplier))]

\* (mutant: without the guard on newServings < 1)
handleServingsChange_unguarded(newServings) ==
  /\ currentRecipe # NoRecipe
  /\ servings' = newServings
  /\ IF newServings >= 2 /\ newServings <= 7
     THEN /\ currentRecipe' =
               LocallyAdjusted(currentRecipe, OriginalServings(currentRecipe), newServings)
          /\ last' = [op |-> "change", arg |-> newServings,
                      path |-> "local"]
          /\ UNCHANGED requests
     ELSE /\ Cardinality(requests) < MaxPending
          /\ requests' = requests \cup
               {[id |-> currentRecipe.id, newServings |-> newServings,
                 original |-> OriginalServings(currentRecipe),
                 captured |-> currentRecipe]}
          /\ last' = [op |-> "change", arg |-> newServings,
                      path |-> "backend"]
          /\ UNCHANGED currentRecipe
  /\ UNCHANGED <<selectedRecipe, originalIngredients, originalNutrition, failures>>
  /\ UNCHANGED <<avars, rvars, hvars, cvars, uvars, fvars, gvars>>

\* handleServingsChange up to its await (or its end, on the local branch)
handleServingsChange(newServings) ==
  /\ currentRecipe # NoRecipe
  /\ IF newServings < 1
     THEN /\ last' = [op |-> "change", arg |-> newServings,
                      path |-> "rejected"]
          /\ UNCHANGED <<servings, currentRecipe, requests>>
     ELSE /\ servings' = newServings
          /\ IF newServings >= 2 /\ newServings <= 7
             THEN /\ currentRecipe' =
                       LocallyAdjusted(currentRecipe, OriginalServings(currentRecipe),
                                       newServings)
                  /\ last' = [op |-> "change", arg |-> newServings,
                              path |-> "local"]
                  /\ UNCHANGED requests
             ELSE /\ Cardinality(requests) < MaxPending
                  /\ requests' = requests \cup
                       {[id |-> currentRecipe.id, newServings |-> newServings,
                         original |-> OriginalServings(currentRecipe),
                         captured |-> currentRecipe]}
                  /\ last' = [op |-> "change", arg |-> newServings,
                              path |-> "backend"]
                  /\ UNCHANGED currentRecipe
  /\ UNCHANGED <<selectedRecipe, originalIngredients, originalNutrition, failures>>
  /\ UNCHANGED <<avars, rvars, hvars, cvars, uvars, fvars, gvars>>

\* the - control: handleServingsChange(Math.max(1, servings - 1))
ClickMinus == handleServingsChange(IF servings - 1 > 1 THEN servings - 1 ELSE 1)

\* the + control: handleServingsChange(servings + 1)
ClickPlus == servings < MaxServings /\ handleServingsChange(servings + 1)

\* handleServingsChange called with a target below 1 (the controls never do)
ChangeBelowOne == \E n \in {0} : handleServingsChange(n)

\* the getById call of `req` resolves: setCurrentRecipe(adjustedRecipe)
GetByIdResolves(req) ==
  /\ req \in requests
  /\ requests' = requests \ {req}
  /\ currentRecipe' = serverAdjustedRecipe(req.id, req.newServings)
  /\ last' = [op |-> "resolve", arg |-> req.newServings, path |-> "backend"]
  /\ UNCHANGED <<selectedRecipe, servings, originalIngredients, originalNutrition,
                 failures>>
  /\ UNCHANGED <<avars, rvars, hvars, cvars, uvars, fvars, gvars>>

\* the getById call of `req` fails: the catch block's local calculation, on
\* the currentRecipe the handler closed over
GetByIdRejects(req) ==
  /\ req \in requests
  /\ failures < MaxFailures
  /\ failures' = failures + 1
  /\ requests' = requests \ {req}
  /\ LET r == adjustIngredientsLocally(req.captured.ingredients, req.original,
                                       req.newServings)
     IN currentRecipe' =
          IF r.threw THEN currentRecipe
          ELSE [req.captured EXCEPT !.ingredients = r.lines,
                                    !.adjusted_servings = req.newServings,
                                    !.original_servings = req.original]
  /\ last' = [op |-> "reject", arg |-> req.newServings, path |-> "fallback"]
  /\ UNCHANGED <<selectedRecipe, servings, originalIngredients, originalNutrition>>
  /\ UNCHANGED <<avars, rvars, hvars, cvars, uvars, fvars, gvars>>

\* const servingMultiplier = servings / (original_servings || servings)
servingMultiplier ==
  JSDiv(Int2Num(servings),
        Int2Num(IF currentRecipe.original_servings # 0
                THEN currentRecipe.original_servings ELSE currentRecipe.servings))

\* nutritionInfo[..].value: Math.round(currentRecipe.<field> * servingMultiplier)
nutritionInfo == [f \in NutFields |->
                    MathRound(JSMul(Int2Num(currentRecipe[f]), servingMultiplier))]

Init ==
  /\ selectedRecipe = NoRecipe /\ currentRecipe = NoRecipe /\ servings = 4
  /\ originalIngredients = <<>> /\ originalNutrition = NoNutrition
  /\ requests = {} /\ failures = 0 /\ last = NoLast
  /\ AmountIdle /\ ResultsIdle /\ HomeIdle /\ CacheIdle /\ AuthIdle /\ FavIdle /\ RateIdle

Next ==
  \/ \E i \in 1..Len(Corpus) : ViewDetails(Corpus[i])
  \/ ClickMinus
  \/ ClickPlus
  \/ ChangeBelowOne
  \/ \E req \in requests : GetByIdResolves(req)
  \/ \E req \in requests : GetByIdRejects(req)

Spec == Init /\ [][Next]_vars

\* --------------------------------------------------- results page: filters
\* three of the six dietaryOptions of HomePage
DietaryOptions == {"Vegan", "Gluten-Free", "Keto"}
CookingTimes == {"Quick", "Moderate", "Long"}
Difficulties == {"Easy", "Medium", "Hard"}
Cuisines == {"Italian", "Indian"}

RECURSIVE Without(_, _)
Without(seq, x) ==
  IF seq = <<>> THEN <<>>
  ELSE (IF Head(seq) = x THEN <<>> ELSE <<Head(seq)>>) \o Without(Tail(seq), x)

\* HomePage.toggleDietaryPreference
toggleDietaryPreference(preference) ==
  /\ filters' = [filters EXCEPT !.dietary =
                   IF \E i \in 1..Len(@) : @[i] = preference
                   THEN Without(@, preference) ELSE Append(@, preference)]
  /\ UNCHANGED searchResults
  /\ UNCHANGED <<avars, dvars, hvars, cvars, uvars, fvars, gvars>>

\* FilterPanel: the cooking time, difficulty and cuisine buttons, Clear All
SetCookingTime(time) ==
  /\ filters' = [filters EXCEPT !.cookingTime = IF @ = time THEN "" ELSE time]
  /\ UNCHANGED searchResults
  /\ UNCHANGED <<avars, dvars, hvars, cvars, uvars, fvars, gvars>>

SetDifficulty(difficulty) ==
  /\ filters' = [filters EXCEPT !.difficulty = IF @ = difficulty THEN "" ELSE difficulty]
  /\ UNCHANGED searchResults
  /\ UNCHANGED <<avars, dvars, hvars, cvars, uvars, fvars, gvars>>

SetCuisine(cuisine) ==
  /\ filters' = [filters EXCEPT !.cuisine = IF @ = cuisine THEN "" ELSE cuisine]
  /\ UNCHANGED searchResults
  /\ UNCHANGED <<avars, dvars, hvars, cvars, uvars, fvars, gvars>>

clearFilters ==
  /\ filters' = NoFilters
  /\ UNCHANGED searchResults
  /\ UNCHANGED <<avars, dvars, hvars, cvars, uvars, fvars, gvars>>

\* the lists of corpus recipes a search can return: the corpus order is kept
RECURSIVE SubLists(_)
SubLists(seq) ==
  IF seq = <<>> THEN {<<>>}
  ELSE LET rest == SubLists(Tail(seq))
       IN rest \cup {<<Head(seq)>> \o r : r \in rest}

\* generateRecipes: setSearchResults(response)
setSearchResults(response) ==
  /\ searchResults' = response
  /\ UNCHANGED filters
  /\ UNCHANGED <<avars, dvars, hvars, cvars, uvars, fvars, gvars>>

\* (mutant: the cuisine test left out)
KeepsRecipe_noCuisine(recipe) ==
  /\ Len(filters.dietary) > 0 =>
       \E i \in 1..Len(filters.dietary) : filters.dietary[i] \in recipe.dietary_tags
  /\ filters.difficulty # "" => recipe.difficulty = filters.difficulty
  /\ filters.cookingTime = "Quick" => ~(recipe.cooking_time >= 30)
  /\ filters.cookingTime = "Moderate" =>
       ~(recipe.cooking_time < 30 \/ recipe.cooking_time > 60)
  /\ filters.cookingTime = "Long" => ~(recipe.cooking_time <= 60)

\* the callback of searchResults.filter in ResultsPage
KeepsRecipe(recipe) ==
  /\ Len(filters.dietary) > 0 =>
       \E i \in 1..Len(filters.dietary) : filters.dietary[i] \in recipe.dietary_tags
  /\ filters.difficulty # "" => recipe.difficulty = filters.difficulty
  /\ filters.cookingTime = "Quick" => ~(recipe.cooking_time >= 30)
  /\ filters.cookingTime = "Moderate" =>
       ~(recipe.cooking_time < 30 \/ recipe.cooking_time > 60)
  /\ filters.cookingTime = "Long" => ~(recipe.cooking_time <= 60)
  /\ filters.cuisine # "" => recipe.cuisine = filters.cuisine

filteredRecipes == SelectSeq(searchResults, KeepsRecipe)

RInit ==
  /\ filters = NoFilters /\ searchResults = <<>>
  /\ AmountIdle /\ DetailsIdle /\ HomeIdle /\ CacheIdle /\ AuthIdle /\ FavIdle /\ RateIdle

RNext ==
  \/ \E preference \in DietaryOptions : toggleDietaryPreference(preference)
  \/ \E time \in CookingTimes : SetCookingTime(time)
  \/ \E difficulty \in Difficulties : SetDifficulty(difficulty)
  \/ \E cuisine \in Cuisines : SetCuisine(cuisine)
  \/ clearFilters
  \/ \E response \in SubLists(Corpus) : setSearchResults(response)

SpecResults == RInit /\ [][RNext]_vars

\* ------------------------------------------------------------- home page
\* longest ingredient list
MaxIngredients == 2

Egg == <<"e", "g", "g">>
EggCapital == <<"E", "g", "g">>
\* texts typed into the field
TypedTexts == {<<" ">> \o Egg, EggCapital, <<" ">>}
\* the lists an image analysis returns
DetectedNames == {EggCapital, <<>>}
DetectedLists ==
  {<<>>} \cup {<<a>> : a \in DetectedNames}
         \cup {<<a, b>> : a \in DetectedNames, b \in DetectedNames}

\* array.includes(x)
ArrayIncludes(array, x) == \E i \in 1..Len(array) : array[i] = x

\* onChange of the text field
setCurrentInput(text) ==
  /\ currentPage = "home"
  /\ text # currentInput
  /\ currentInput' = text
  /\ hlast' = NoHLast
  /\ UNCHANGED <<ingredients, loading, imageLoading, analysis, search,
                 searchIngredients, currentPage>>
  /\ UNCHANGED <<avars, dvars, rvars, cvars, uvars, fvars, gvars>>

addIngredient ==
  /\ currentPage = "home"
  /\ IF Trim(currentInput) # <<>> /\ ~ArrayIncludes(ingredients, Trim(currentInput))
     THEN /\ Len(ingredients) < MaxIngredients
          /\ ingredients' = Append(ingredients, Trim(currentInput))
          /\ currentInput' = <<>>
     ELSE UNCHANGED <<ingredients, currentInput>>
  /\ hlast' = NoHLast
  /\ UNCHANGED <<loading, imageLoading, analysis, search, searchIngredients,
                 currentPage>>
  /\ UNCHANGED <<avars, dvars, rvars, cvars, uvars, fvars, gvars>>

removeIngredient(ingredient) ==
  /\ currentPage = "home"
  /\ ArrayIncludes(ingredients, ingredient)
  /\ ingredients' = Without(ingredients, ingredient)
  /\ hlast' = NoHLast
  /\ UNCHANGED <<currentInput, loading, imageLoading, analysis, search,
                 searchIngredients, currentPage>>
  /\ UNCHANGED <<avars, dvars, rvars, cvars, uvars, fvars, gvars>>

\* handleImageUpload up to its await; the file input is disabled while
\* imageLoading
handleImageUpload ==
  /\ currentPage = "home"
  /\ ~imageLoading
  /\ imageLoading' = TRUE
  /\ analysis' = [pending |-> TRUE, captured |-> ingredients]
  /\ hlast' = NoHLast
  /\ UNCHANGED <<ingredients, currentInput, loading, search, searchIngredients,
                 currentPage>>
  /\ UNCHANGED <<avars, dvars, rvars, cvars, uvars, fvars, gvars>>

\* result.ingredients.filter(ing => !ingredients.includes(ing.toLowerCase()))
NewIngredients(list, detected) ==
  LET Fresh(ing) == ~ArrayIncludes(list, ToLowerCase(ing))
  IN SelectSeq(detected, Fresh)

\* [...ingredients, ...newIngredients], on the list the handler closed over
Merged(captured, detected) == captured \o NewIngredients(captured, detected)

\* analyzeAPI.image resolves with `detected`
AnalysisResolves(detected) ==
  /\ currentPage = "home"
  /\ analysis.pending
  /\ Len(Merged(analysis.captured, detected)) <= MaxIngredients
  /\ ingredients' = Merged(analysis.captured, detected)
  /\ imageLoading' = FALSE
  /\ analysis' = NoAnalysis
  /\ hlast' = [NoHLast EXCEPT !.op = "analysed", !.before = ingredients,
                              !.arg = detected]
  /\ UNCHANGED <<currentInput, loading, search, searchIngredients, currentPage>>
  /\ UNCHANGED <<avars, dvars, rvars, cvars, uvars, fvars, gvars>>

\* analyzeAPI.image rejects
AnalysisRejects ==
  /\ currentPage = "home"
  /\ analysis.pending
  /\ imageLoading' = FALSE
  /\ analysis' = NoAnalysis
  /\ hlast' = NoHLast
  /\ UNCHANGED <<ingredients, currentInput, loading, search, searchIngredients,
                 currentPage>>
  /\ UNCHANGED <<avars, dvars, rvars, cvars, uvars, fvars, gvars>>

\* generateRecipes up to its await; the button is disabled while loading or
\* imageLoading
generateRecipes ==
  /\ currentPage = "home"
  /\ ~(loading \/ imageLoading)
  /\ IF Len(ingredients) = 0
     THEN UNCHANGED <<loading, searchIngredients, search>>
     ELSE /\ loading' = TRUE
          /\ searchIngredients' = ingredients
          /\ search' = [pending |-> TRUE, ingredients |-> ingredients,
                        dietary |-> filters.dietary]
  /\ hlast' = [NoHLast EXCEPT !.op = "generate", !.before = ingredients,
                              !.prior = searchIngredients]
  /\ UNCHANGED <<ingredients, currentInput, imageLoading, analysis, currentPage>>
  /\ UNCHANGED <<avars, dvars, rvars, cvars, uvars, fvars, gvars>>

\* match scores in hundredths: 1.0 is 100
MatchScores == {0, 35, 100}

\* the recipes of a search response: a corpus recipe with or without a
\* match_score
RawRecipes(recipe) ==
  {recipe} \cup {recipe @@ [match_score |-> m] : m \in MatchScores}
RawResponses ==
  {<<>>} \cup {<<a>> : a \in RawRecipes(Corpus[1])}
         \cup {<<Corpus[1] @@ [match_score |-> 35], Corpus[2]>>}

\* the callback of data.recipes.map in recipesAPI.search (the rating and
\* favorite fields are left out)
searchRecipe(recipe) ==
  [matchScore |-> IF "match_score" \in DOMAIN recipe /\ recipe.match_score # 0
                  THEN recipe.match_score ELSE 100]
    @@ [recipe EXCEPT !.id = IntStr(recipe.id)]

\* recipesAPI.search resolves with `data`: setSearchResults, setCurrentPage
SearchResolves(data) ==
  /\ search.pending
  /\ searchResults' = [i \in 1..Len(data) |-> searchRecipe(data[i])]
  /\ currentPage' = "results"
  /\ loading' = FALSE
  /\ search' = NoSearch
  /\ hlast' = NoHLast
  /\ UNCHANGED <<ingredients, currentInput, imageLoading, analysis, searchIngredients>>
  /\ UNCHANGED <<avars, dvars, filters, cvars, uvars, fvars, gvars>>

\* recipesAPI.search rejects
SearchRejects ==
  /\ search.pending
  /\ loading' = FALSE
  /\ search' = NoSearch
  /\ hlast' = NoHLast
  /\ UNCHANGED <<ingredients, currentInput, imageLoading, analysis,
                 searchIngredients, currentPage>>
  /\ UNCHANGED <<avars, dvars, rvars, cvars, uvars, fvars, gvars>>

HInit ==
  /\ HomeIdle /\ filters = NoFilters /\ searchResults = <<>>
  /\ AmountIdle /\ DetailsIdle /\ CacheIdle /\ AuthIdle /\ FavIdle /\ RateIdle

HNext ==
  \/ \E text \in TypedTexts \cup {<<>>} : setCurrentInput(text)
  \/ addIngredient
  \/ \E i \in 1..Len(ingredients) : removeIngredient(ingredients[i])
  \/ handleImageUpload
  \/ \E detected \in DetectedLists : AnalysisResolves(detected)
  \/ AnalysisRejects
  \/ generateRecipes
  \/ \E data \in RawResponses : SearchResolves(data)
  \/ SearchRejects

SpecHome == HInit /\ [][HNext]_vars

\* ------------------------------------------------- backend: result cache
\* configuration: {ttl_seconds, max_entries}
ttl_seconds == 3
max_entries == 2
\* the clock stops here
MaxClock == 6
\* corpus reloads
MaxReloads == 1

Tokens == {"egg", "flour"}
\* a query: the ingredient tokens as given, and a dietary filter
Queries ==
  {[tokens |-> t, dietary |-> d] :
     t \in {<<a>> : a \in Tokens} \cup {<<a, b>> : a \in Tokens, b \in Tokens},
     d \in {"", "Vegan"}}

\* the canonical query: the token set (order and repeats dropped) and the filters
Canonical(query) ==
  <<{query.tokens[i] : i \in 1..Len(query.tokens)}, query.dietary>>

\* compute_fn: the Matcher's result for the key on the current corpus
Compute(key) == <<[key |-> key, corpus |-> corpusVersion]>>

CacheKeys == {e.key : e \in cache}
Entry(key) == CHOOSE e \in cache : e.key = key

\* an entry has expired when its ttl has passed; a ttl of 0 never expires
Expired(entry, now) == ttl_seconds # 0 /\ now - entry.created >= ttl_seconds

\* (mutant: the stored entry is never used)
IsHit_never(key, now) == FALSE

\* a hit: the key has an entry that has not expired
IsHit(key, now) == key \in CacheKeys /\ ~Expired(Entry(key), now)

\* the least-recently-accessed entries
LeastRecent(entries) ==
  {e \in entries : \A o \in entries : e.last_access <= o.last_access}

\* (mutant: the most recently accessed entry is evicted)
Victims_mostRecent(entries) ==
  IF Cardinality(entries) < max_entries THEN {{}}
  ELSE {{e} : e \in {x \in entries : \A o \in entries : x.last_access >= o.last_access}}

\* what a miss evicts to make room in `entries`: nothing below capacity, else
\* one least-recently-accessed entry
Victims(entries) ==
  IF Cardinality(entries) < max_entries THEN {{}}
  ELSE {{e} : e \in LeastRecent(entries)}

\* get_or_compute(query, filters, compute_fn); a call takes one second
get_or_compute(query) ==
  LET key == Canonical(query)
      now == clock + 1
  IN /\ clock < MaxClock
     /\ clock' = now
     /\ IF IsHit(key, now)
        THEN /\ cache' = (cache \ {Entry(key)})
                           \cup {[Entry(key) EXCEPT !.last_access = now]}
             /\ clast' = [op |-> "get", key |-> key, at |-> now,
                          result |-> Entry(key).value, computed |-> FALSE,
                          evicted |-> {}]
        ELSE LET others == {e \in cache : e.key # key}
             IN \E out \in Victims(others) :
                  /\ cache' = (others \ out)
                                \cup {[key |-> key, value |-> Compute(key),
                                       created |-> now, last_access |-> now]}
                  /\ clast' = [op |-> "get", key |-> key, at |-> now,
                               result |-> Compute(key), computed |-> TRUE,
                               evicted |-> {e.key : e \in out}]
     /\ UNCHANGED corpusVersion
     /\ UNCHANGED <<avars, dvars, rvars, hvars, uvars, fvars, gvars>>

invalidate_all ==
  /\ cache' = {}
  /\ clast' = [NoCLast EXCEPT !.op = "invalidate", !.at = clock]
  /\ UNCHANGED <<clock, corpusVersion>>
  /\ UNCHANGED <<avars, dvars, rvars, hvars, uvars, fvars, gvars>>

\* the corpus is reloaded: every entry is invalidated
ReloadCorpus ==
  /\ corpusVersion < MaxReloads
  /\ corpusVersion' = corpusVersion + 1
  /\ cache' = {}
  /\ clast' = [NoCLast EXCEPT !.op = "reload", !.at = clock]
  /\ UNCHANGED clock
  /\ UNCHANGED <<avars, dvars, rvars, hvars, uvars, fvars, gvars>>

\* time passes
Tick ==
  /\ clock < MaxClock
  /\ clock' = clock + 1
  /\ UNCHANGED <<cache, corpusVersion, clast>>
  /\ UNCHANGED <<avars, dvars, rvars, hvars, uvars, fvars, gvars>>

CInit ==
  /\ CacheIdle /\ filters = NoFilters /\ searchResults = <<>>
  /\ AmountIdle /\ DetailsIdle /\ HomeIdle /\ AuthIdle /\ FavIdle /\ RateIdle

CNext ==
  \/ \E query \in Queries : get_or_compute(query)
  \/ invalidate_all
  \/ ReloadCorpus
  \/ Tick

SpecCache == CInit /\ [][CNext]_vars

\* ---------------------------------------------------------- authentication
\* login and register calls made in a session
MaxLogins == 2

\* the token left in localStorage by an earlier session, if any
StoredTokens == {"", "t0"}
\* the token the n-th login or register call is answered with
IssuedToken(n) == IF n = 1 THEN "t1" ELSE IF n = 2 THEN "t2" ELSE "t3"
\* the user a token belongs to
UserOf(token) == IF token = "t0" THEN "u0" ELSE "u1"

\* setAuthToken: an empty token removes the localStorage item
setAuthToken(token) ==
  /\ authToken' = token
  /\ localToken' = token

\* getAuthToken: authToken, read from localStorage when it is empty
getAuthToken == IF authToken = "" THEN localToken ELSE authToken

\* the effect of AuthProvider, up to the getCurrentUser call
AuthEffect ==
  /\ check = "todo"
  /\ authToken' = getAuthToken
  /\ IF getAuthToken # ""
     THEN check' = "sent" /\ UNCHANGED authLoading
     ELSE check' = "done" /\ authLoading' = FALSE
  /\ ulast' = [op |-> "mount", before |-> getAuthToken, sent |-> getAuthToken]
  /\ UNCHANGED <<user, localToken, calls, issued>>
  /\ UNCHANGED <<avars, dvars, rvars, hvars, cvars, fvars, gvars>>

\* getCurrentUser resolves: setUser(userData), setLoading(false)
CheckResolves ==
  /\ check = "sent"
  /\ check' = "done"
  /\ user' = "u0"
  /\ authLoading' = FALSE
  /\ ulast' = [op |-> "checkResolved", before |-> authToken, sent |-> "t0"]
  /\ UNCHANGED <<authToken, localToken, calls, issued>>
  /\ UNCHANGED <<avars, dvars, rvars, hvars, cvars, fvars, gvars>>

\* getCurrentUser rejects: setAuthToken(''), setLoading(false)
CheckRejects ==
  /\ check = "sent"
  /\ check' = "done"
  /\ setAuthToken("")
  /\ authLoading' = FALSE
  /\ ulast' = [op |-> "checkRejected", before |-> authToken, sent |-> "t0"]
  /\ UNCHANGED <<user, calls, issued>>
  /\ UNCHANGED <<avars, dvars, rvars, hvars, cvars, fvars, gvars>>

\* signInWithEmail / signUpWithEmail up to the await
SignInOrUp(kind) ==
  /\ check # "todo"
  /\ user = ""
  /\ issued < MaxLogins
  /\ issued' = issued + 1
  /\ calls' = calls \cup {[kind |-> kind, token |-> IssuedToken(issued + 1)]}
  /\ ulast' = [op |-> kind, before |-> authToken, sent |-> ""]
  /\ UNCHANGED <<user, authLoading, authToken, localToken, check>>
  /\ UNCHANGED <<avars, dvars, rvars, hvars, cvars, fvars, gvars>>

\* authAPI.login / register resolves: setAuthToken(access_token), setUser(user)
SignInResolves(call) ==
  /\ call \in calls /\ call.kind \in {"login", "register"}
  /\ calls' = calls \ {call}
  /\ setAuthToken(call.token)
  /\ user' = UserOf(call.token)
  /\ ulast' = [op |-> "signedIn", before |-> authToken, sent |-> call.token]
  /\ UNCHANGED <<authLoading, check, issued>>
  /\ UNCHANGED <<avars, dvars, rvars, hvars, cvars, fvars, gvars>>

\* (mutant: a failed call ends the session all the same)
CallRejects_signsOut(call) ==
  /\ call \in calls
  /\ calls' = calls \ {call}
  /\ setAuthToken("")
  /\ user' = ""
  /\ ulast' = [op |-> "failed", before |-> authToken, sent |-> call.kind]
  /\ UNCHANGED <<authLoading, check, issued>>
  /\ UNCHANGED <<avars, dvars, rvars, hvars, cvars, fvars, gvars>>

\* a login, register or delete call rejects: the handler throws
CallRejects(call) ==
  /\ call \in calls
  /\ calls' = calls \ {call}
  /\ ulast' = [op |-> "failed", before |-> authToken, sent |-> call.kind]
  /\ UNCHANGED <<user, authLoading, authToken, localToken, check, issued>>
  /\ UNCHANGED <<avars, dvars, rvars, hvars, cvars, fvars, gvars>>

signOut ==
  /\ user # ""
  /\ setAuthToken("")
  /\ user' = ""
  /\ ulast' = [op |-> "signOut", before |-> authToken, sent |-> ""]
  /\ UNCHANGED <<authLoading, check, calls, issued>>
  /\ UNCHANGED <<avars, dvars, rvars, hvars, cvars, fvars, gvars>>

\* deleteAccount up to the await of authAPI.deleteAccount
deleteAccount ==
  /\ user # ""
  /\ [kind |-> "delete", token |-> ""] \notin calls
  /\ calls' = calls \cup {[kind |-> "delete", token |-> ""]}
  /\ ulast' = [op |-> "delete", before |-> authToken, sent |-> ""]
  /\ UNCHANGED <<user, authLoading, authToken, localToken, check, issued>>
  /\ UNCHANGED <<avars, dvars, rvars, hvars, cvars, fvars, gvars>>

\* authAPI.deleteAccount resolves: setAuthToken(''), then signOut()
DeleteResolves(call) ==
  /\ call \in calls /\ call.kind = "delete"
  /\ calls' = calls \ {call}
  /\ setAuthToken("")
  /\ user' = ""
  /\ ulast' = [op |-> "deleted", before |-> authToken, sent |-> ""]
  /\ UNCHANGED <<authLoading, check, issued>>
  /\ UNCHANGED <<avars, dvars, rvars, hvars, cvars, fvars, gvars>>

\* the Authorization header of an outgoing request, "absent" when the
\* request has none; a null token is interpolated as "null"
NoHeader == "absent"
Bearer(token) ==
  CASE token = "" -> "Bearer null"
    [] token = "t0" -> "Bearer t0"
    [] token = "t1" -> "Bearer t1"
    [] token = "t2" -> "Bearer t2"
    [] OTHER -> "Bearer t3"

\* the headers apiRequest prepares: Authorization only with a token
apiRequestHeader == IF getAuthToken # "" THEN Bearer(getAuthToken) ELSE NoHeader

\* the headers recipesAPI.search and analyzeAPI.image pass to fetch
fetchHeader == Bearer(getAuthToken)

\* a call that goes through apiRequest (getUserProfile, infoAPI.getStats ...)
apiRequest ==
  /\ check # "todo"
  /\ ulast' = [op |-> "apiRequest", before |-> getAuthToken,
               sent |-> apiRequestHeader]
  /\ authToken' = getAuthToken
  /\ UNCHANGED <<user, authLoading, localToken, check, calls, issued>>
  /\ UNCHANGED <<avars, dvars, rvars, hvars, cvars, fvars, gvars>>

\* recipesAPI.search up to its fetch
recipesAPI_search ==
  /\ check # "todo"
  /\ ulast' = [op |-> "search", before |-> getAuthToken, sent |-> fetchHeader]
  /\ authToken' = getAuthToken
  /\ UNCHANGED <<user, authLoading, localToken, check, calls, issued>>
  /\ UNCHANGED <<avars, dvars, rvars, hvars, cvars, fvars, gvars>>

\* analyzeAPI.image up to its fetch
analyzeAPI_image ==
  /\ check # "todo"
  /\ ulast' = [op |-> "image", before |-> getAuthToken, sent |-> fetchHeader]
  /\ authToken' = getAuthToken
  /\ UNCHANGED <<user, authLoading, localToken, check, calls, issued>>
  /\ UNCHANGED <<avars, dvars, rvars, hvars, cvars, fvars, gvars>>

UInit ==
  /\ user = "" /\ authLoading = TRUE
  /\ localToken \in StoredTokens /\ authToken = localToken
  /\ check = "todo" /\ calls = {} /\ issued = 0 /\ ulast = NoULast
  /\ filters = NoFilters /\ searchResults = <<>>
  /\ AmountIdle /\ DetailsIdle /\ HomeIdle /\ CacheIdle /\ FavIdle /\ RateIdle

UNext ==
  \/ AuthEffect
  \/ CheckResolves
  \/ CheckRejects
  \/ \E kind \in {"login", "register"} : SignInOrUp(kind)
  \/ \E call \in calls : SignInResolves(call)
  \/ \E call \in calls : CallRejects(call)
  \/ signOut
  \/ deleteAccount
  \/ \E call \in calls : DeleteResolves(call)
  \/ apiRequest
  \/ recipesAPI_search
  \/ analyzeAPI_image

SpecAuth == UInit /\ [][UNext]_vars

\* --------------------------------------------------------------- favorites
\* toggle requests in flight at a time
MaxToggles == 2

\* AppContext.toggleFavorite, applied to the favorites of the moment; setTo
\* is "true", "false" or "undefined"
toggleFavorite(prev, id, setTo) ==
  LET shouldSet == IF setTo \in {"true", "false"} THEN setTo = "true"
                   ELSE id \notin prev
  IN  IF shouldSet THEN prev \cup {id} ELSE prev \ {id}

\* AppContext.setFavoritesFromArray
setFavoritesFromArray(ids) == favorites' = ids

\* FavoritesPage.fetchFavorites: favoritesAPI.get() resolves with the
\* recipes whose ids are `ids`
FetchFavoritesResolves(ids) ==
  /\ IF ids # {} THEN setFavoritesFromArray(ids) ELSE UNCHANGED favorites
  /\ flast' = [op |-> "loaded", from |-> "favorites", id |-> "",
               value |-> FALSE, ids |-> ids]
  /\ UNCHANGED <<cardRecipes, favRecipe, isFavoriting, isLoading, toggles>>
  /\ UNCHANGED <<avars, dvars, rvars, hvars, cvars, uvars, gvars>>

\* a results card is opened: its recipe is the details page's currentRecipe
ViewFavDetails(id) ==
  /\ isFavoriting = FALSE
  /\ favRecipe' = [id |-> id, is_favorited |-> cardRecipes[id]]
  /\ UNCHANGED <<favorites, cardRecipes, isFavoriting, isLoading, toggles,
                 flast>>
  /\ UNCHANGED <<avars, dvars, rvars, hvars, cvars, uvars, gvars>>

\* isFavorited of the details page
PageFavorited == favRecipe.id \in favorites \/ favRecipe.is_favorited

\* isFavorited of a recipe card
CardFavorited(id) == id \in favorites \/ cardRecipes[id]

\* details page handleFavoriteClick up to the await
handleFavoriteClick ==
  /\ user # ""
  /\ favRecipe # NoFavRecipe
  /\ isFavoriting = FALSE
  /\ Cardinality(toggles) < MaxToggles
  /\ isFavoriting' = TRUE
  /\ toggles' = toggles \cup {[from |-> "page", id |-> favRecipe.id,
                               captured |-> favRecipe]}
  /\ UNCHANGED <<favorites, cardRecipes, favRecipe, isLoading, flast>>
  /\ UNCHANGED <<avars, dvars, rvars, hvars, cvars, uvars, gvars>>

\* RecipeCard.handleFavoriteClick up to the await
CardFavoriteClick(id) ==
  /\ ~(id \in isLoading \/ user = "")
  /\ Cardinality(toggles) < MaxToggles
  /\ isLoading' = isLoading \cup {id}
  /\ toggles' = toggles \cup {[from |-> "card", id |-> id,
                               captured |-> NoFavRecipe]}
  /\ UNCHANGED <<favorites, cardRecipes, favRecipe, isFavoriting, flast>>
  /\ UNCHANGED <<avars, dvars, rvars, hvars, cvars, uvars, gvars>>

\* the second argument the details page passes to toggleFavorite
PageSetTo(is_favorited) == IF is_favorited THEN "true" ELSE "false"

\* recipesAPI.toggleFavorite resolves with the server value is_favorited
ToggleResolves(call, is_favorited) ==
  /\ call \in toggles
  /\ toggles' = toggles \ {call}
  /\ IF call.from = "page"
     THEN /\ favorites' = toggleFavorite(favorites, call.id,
                                         PageSetTo(is_favorited))
          /\ favRecipe' = [call.captured EXCEPT
                             !.is_favorited = is_favorited]
          /\ isFavoriting' = FALSE
          /\ UNCHANGED isLoading
     ELSE /\ favorites' = toggleFavorite(favorites, call.id, "undefined")
          /\ isLoading' = isLoading \ {call.id}
          /\ UNCHANGED <<favRecipe, isFavoriting>>
  /\ flast' = [op |-> "toggled", from |-> call.from, id |-> call.id,
               value |-> is_favorited, ids |-> {}]
  /\ UNCHANGED cardRecipes
  /\ UNCHANGED <<avars, dvars, rvars, hvars, cvars, uvars, gvars>>

\* recipesAPI.toggleFavorite rejects: only the loading flag is reset
ToggleRejects(call) ==
  /\ call \in toggles
  /\ toggles' = toggles \ {call}
  /\ IF call.from = "page"
     THEN isFavoriting' = FALSE /\ UNCHANGED isLoading
     ELSE isLoading' = isLoading \ {call.id} /\ UNCHANGED isFavoriting
  /\ flast' = [op |-> "failed", from |-> call.from, id |-> call.id,
               value |-> FALSE, ids |-> {}]
  /\ UNCHANGED <<favorites, cardRecipes, favRecipe>>
  /\ UNCHANGED <<avars, dvars, rvars, hvars, cvars, uvars, gvars>>

FInit ==
  /\ favorites = {} /\ cardRecipes \in [RecipeIds -> BOOLEAN]
  /\ favRecipe = NoFavRecipe /\ isFavoriting = FALSE /\ isLoading = {}
  /\ toggles = {} /\ flast = NoFLast
  /\ user = "u1" /\ authLoading = FALSE /\ authToken = "t1"
  /\ localToken = "t1" /\ check = "done" /\ calls = {} /\ issued = 0
  /\ ulast = NoULast
  /\ filters = NoFilters /\ searchResults = <<>>
  /\ AmountIdle /\ DetailsIdle /\ HomeIdle /\ CacheIdle /\ RateIdle

FNext ==
  \/ \E ids \in SUBSET RecipeIds : FetchFavoritesResolves(ids)
  \/ \E id \in RecipeIds : ViewFavDetails(id)
  \/ handleFavoriteClick
  \/ \E id \in RecipeIds : CardFavoriteClick(id)
  \/ \E call \in toggles, b \in BOOLEAN : ToggleResolves(call, b)
  \/ \E call \in toggles : ToggleRejects(call)

SpecFav == FInit /\ [][FNext]_vars

\* ------------------------------------------------------------------ rating
\* the stars offered, 1..5 in the page
MaxStars == 2
Stars == 1..MaxStars

\* what the page shows of the recipe for the servings counter
Shown ==
  [ingredients |-> currentRecipe.ingredients,
   adjusted_servings |-> currentRecipe.adjusted_servings,
   original_servings |-> currentRecipe.original_servings,
   nutrition |-> nutritionInfo]

\* the recipe recipesAPI.rate returns: the request carries the id and the
\* rating only, the answer is the recipe as the server stores it
ratedRecipe(id) == RecipeById(id)

\* (mutant: without the isRating guard)
handleRateRecipe_unguarded(rating) ==
  /\ user # ""
  /\ currentRecipe # NoRecipe
  /\ isRating' = TRUE
  /\ ratings' = ratings \cup {[id |-> currentRecipe.id, rating |-> rating]}
  /\ UNCHANGED <<userRating, glast>>
  /\ UNCHANGED <<avars, dvars, rvars, hvars, cvars, uvars, fvars>>

\* handleRateRecipe up to its await
handleRateRecipe(rating) ==
  /\ user # ""
  /\ currentRecipe # NoRecipe
  /\ IF isRating
     THEN /\ glast' = [NoGLast EXCEPT !.op = "ignored"]
          /\ UNCHANGED <<isRating, ratings>>
     ELSE /\ isRating' = TRUE
          /\ ratings' = ratings \cup
               {[id |-> currentRecipe.id, rating |-> rating]}
          /\ UNCHANGED glast
  /\ UNCHANGED userRating
  /\ UNCHANGED <<avars, dvars, rvars, hvars, cvars, uvars, fvars>>

\* recipesAPI.rate resolves: setCurrentRecipe(updatedRecipe),
\* setUserRating(rating), setIsRating(false)
RateResolves(req) ==
  /\ req \in ratings
  /\ ratings' = ratings \ {req}
  /\ currentRecipe' = ratedRecipe(req.id)
  /\ userRating' = req.rating
  /\ isRating' = FALSE
  /\ glast' = [NoGLast EXCEPT !.op = "rated", !.rating = req.rating,
                              !.before = Shown]
  /\ UNCHANGED <<selectedRecipe, servings, originalIngredients,
                 originalNutrition, requests, failures, last>>
  /\ UNCHANGED <<avars, rvars, hvars, cvars, uvars, fvars>>

\* recipesAPI.rate rejects: setIsRating(false)
RateRejects(req) ==
  /\ req \in ratings
  /\ ratings' = ratings \ {req}
  /\ isRating' = FALSE
  /\ glast' = [NoGLast EXCEPT !.op = "rateFailed", !.prior = userRating]
  /\ UNCHANGED userRating
  /\ UNCHANGED <<avars, dvars, rvars, hvars, cvars, uvars, fvars>>

GInit ==
  /\ selectedRecipe = NoRecipe /\ currentRecipe = NoRecipe /\ servings = 4
  /\ originalIngredients = <<>> /\ originalNutrition = NoNutrition
  /\ requests = {} /\ failures = 0 /\ last = NoLast
  /\ user = "u1" /\ authLoading = FALSE /\ authToken = "t1"
  /\ localToken = "t1" /\ check = "done" /\ calls = {} /\ issued = 0
  /\ ulast = NoULast
  /\ AmountIdle /\ ResultsIdle /\ HomeIdle /\ CacheIdle /\ FavIdle /\ RateIdle

\* the rating handlers next to the + control, which adjusts locally; the
\* - control and the backend adjustment are exercised by Spec
GNext ==
  \/ \E i \in 1..Len(Corpus) : ViewDetails(Corpus[i])
  \/ ClickPlus
  \/ \E star \in Stars : handleRateRecipe(star)
  \/ \E req \in ratings : RateResolves(req)
  \/ \E req \in ratings : RateRejects(req)

SpecRate == GInit /\ [][GNext]_vars

\* ------------------------------------------------------------ properties
AmountDone == pc \in {"scaled", "back", "formatted"}
OneAndAHalf == <<"1", " ", "1", "/", "2">>

\* C2: a line whose amount is not a number ("to taste", the empty string)
\* comes out of the serving adjustment with its amount string and its unit
\* unchanged, for all serving counts.
C2_NonNumericPassesThrough ==
  (AmountDone /\ ingLine.amount \in {<<>>, ToTaste})
    => (~adj.threw /\ adj.out.amount = ingLine.amount /\ adj.out.unit = ingLine.unit)

\* |x - n/d| <= tn/td for a number x
WithinOf(x, n, d, tn, td) ==
  /\ IsFin(x)
  /\ LET diff == IF x.n * d >= n * x.d THEN x.n * d - n * x.d ELSE n * x.d - x.n * d
     IN diff * td <= tn * x.d * d

\* C4 (as claimed): scaling a numeric amount from s0 to s1 and the rendered
\* result back from s1 to s0 gives an amount within 0.05 of the original, for
\* all serving counts.
C4_RoundTripWithinTolerance ==
  \A f \in NumericForms :
    (pc = "back" /\ ingLine.amount = f.s) => WithinOf(rev.handed, f.n, f.d, 1, 20)

\* C4 (amended): when the scaled amount a * s1 / s0 is at least 0.05, scaling
\* from s0 to s1 and scaling the rendered result back hands the formatter a
\* value within 0.05 * max(1, s0 / s1) of a, which is within 0.05 if s1 >= s0.
C4_RoundTripScaledTolerance ==
  \A f \in NumericForms :
    (pc = "back" /\ ingLine.amount = f.s /\ 20 * f.n * adj.s1 >= f.d * adj.s0)
      => WithinOf(rev.handed, f.n, f.d,
                  IF adj.s0 > adj.s1 THEN adj.s0 ELSE adj.s1, 20 * adj.s1)

C4_Witness ==
  /\ pc = "back"
  /\ ingLine.amount = <<"1">>
  /\ adj.s0 = 7 /\ adj.s1 = 1
  /\ adj.out.amount = <<"1", "/", "8">>
  /\ rev.handed = Fin(7, 8)

\* C5 (as claimed): "1 1/2" scaled from 2 to 3 servings is rendered as the
\* mixed number "2 1/4".
C5_RendersMixedNumber ==
  (AmountDone /\ ingLine.amount = OneAndAHalf /\ adj.s0 = 2 /\ adj.s1 = 3)
    => adj.out.amount = <<"2", " ", "1", "/", "4">>

\* C5 (amended): "1 1/2" parses to 1.5 and scaled from 2 to 3 servings gives
\* 2.25; formatAmount matches the whole value against the common fractions,
\* so 2.25 is rendered "2.3"; a value of 1 or more is never rendered as a
\* fraction or a mixed number.
C5_RendersWholeValue ==
  /\ (AmountDone /\ ingLine.amount = OneAndAHalf /\ adj.s0 = 2 /\ adj.s1 = 3)
       => /\ parsed.page = Fin(3, 2)
          /\ adj.handed = Fin(9, 4)
          /\ adj.out.amount = <<"2", ".", "3">>
  /\ (AmountDone /\ IsFin(adj.handed) /\ adj.handed.n >= adj.handed.d)
       => \A i \in 1..Len(adj.out.amount) : adj.out.amount[i] \in Digits \cup {"."}

C5_Witness ==
  /\ pc = "scaled"
  /\ ingLine.amount = OneAndAHalf
  /\ adj.s0 = 2 /\ adj.s1 = 3
  /\ adj.out.amount = <<"2", ".", "3">>

\* the formatting rule
FollowsRule(x, str) ==
  IF x.d = 1 THEN str = IntStr(x.n)
  ELSE IF \E i \in 1..7 : NearCommon(x, i)
    THEN \E i \in 1..7 : NearCommon(x, i) /\ str = CommonFractions[i]
  ELSE str = NumStr(Fin(MathRound(Fin(10 * x.n, x.d)), 10))

\* C6: both formatAmount follow the formatting rule and render every value
\* identically.
C6_FormattersAgree ==
  (pc = "formatted" /\ IsFin(adj.handed))
    => /\ FollowsRule(adj.handed, fmt.page)
       /\ FollowsRule(adj.handed, fmt.util)
       /\ fmt.page = fmt.util

\* C7: for a numeric amount a and serving counts s0, s1 the value handed to
\* the formatter is exactly a * s1 / s0; from 4 to 8 servings it is 2 * a.
C7_ScalingLaw ==
  \A f \in NumericForms :
    (AmountDone /\ ingLine.amount = f.s)
      => /\ adj.handed = Fin(f.n * adj.s1, f.d * adj.s0)
         /\ (adj.s0 = 4 /\ adj.s1 = 8) => adj.handed = Fin(2 * f.n, f.d)

C7_Witness ==
  /\ pc = "scaled"
  /\ ingLine.amount = OneAndAHalf
  /\ adj.s0 = 4 /\ adj.s1 = 8
  /\ adj.handed = Fin(3, 1)

\* C8: parseAmount never throws and never returns NaN or an infinite value;
\* it returns the value of an integer, decimal, fraction or mixed number and
\* the sentinel 0 for every other string.
C8_ParseIsTotal ==
  pc = "parsed" =>
    \A r \in {parsed.page, parsed.util} :
      /\ IsFin(r)
      /\ \A f \in NumericForms : ingLine.amount = f.s => r = Fin(f.n, f.d)
      /\ ~IsNumericShape(ingLine.amount) => r = Zero

\* C1: after a local servings change the Nutrition tab shows, for each of
\* calories, protein, carbs and fat, round(base value * servings / base
\* servings): the multiplier is applied once.
C1_NutritionScaledOnce ==
  (last.op = "change" /\ last.path = "local")
    => \A f \in NutFields :
         nutritionInfo[f] = MathRound(Fin(selectedRecipe[f] * servings,
                                          selectedRecipe.servings))

\* C3: when no request is pending and the recipe shown is the one adjusted
\* to the servings counter, every numeric amount shown is the original
\* amount scaled once by servings / original servings (up to its rendering,
\* 0.05), whatever changes came before.
C3_AdjustmentsDoNotStack ==
  (currentRecipe # NoRecipe /\ requests = {}
     /\ currentRecipe.adjusted_servings = servings)
    => \A i \in 1..Len(selectedRecipe.ingredients) :
         LET a == parseAmount(selectedRecipe.ingredients[i].amount) IN
         JSPositive(a)
           => WithinOf(amountUtil_parseAmount(currentRecipe.ingredients[i].amount),
                       a.n * servings, a.d * selectedRecipe.servings, 1, 20)

\* C9: a servings change with a target below 1 changes neither the servings
\* counter nor the recipe shown nor its nutrition and sends no request; the
\* servings counter is at least 1 in every reachable state.
C9_BelowOneRejected ==
  /\ [](servings >= 1)
  /\ [][(last' # last /\ last'.op = "change" /\ last'.arg < 1)
         => /\ last'.path = "rejected"
            /\ servings' = servings
            /\ currentRecipe' = currentRecipe
            /\ nutritionInfo' = nutritionInfo
            /\ requests' = requests]_vars

C9_Witness ==
  /\ currentRecipe # NoRecipe
  /\ last.op = "change" /\ last.arg < 1 /\ last.path = "rejected"
  /\ servings = 1

\* C10: every recipe in the filtered results carries all the requested
\* dietary tags.
C10_AllRequestedTags ==
  \A i \in 1..Len(filteredRecipes) :
    \A j \in 1..Len(filters.dietary) :
      filters.dietary[j] \in filteredRecipes[i].dietary_tags

NoUsableToken(list) == \A i \in 1..Len(list) : Trim(list[i]) = <<>>

\* C12: generateRecipes called on a list without a usable token (the empty
\* list, or a list of empty or whitespace-only entries) sends no search
\* request and leaves searchIngredients and the current page unchanged.
C12_EmptySearchRejected ==
  (hlast.op = "generate" /\ NoUsableToken(hlast.before))
    => /\ ~search.pending /\ ~loading
       /\ searchIngredients = hlast.prior
       /\ currentPage = "home" /\ searchResults = <<>>

\* C13: in every state of the ingredient input the list holds no empty entry
\* and no two entries equal after trimming and lower-casing.
C13_QueryNormalised ==
  /\ \A i \in 1..Len(ingredients) : Trim(ToLowerCase(ingredients[i])) # <<>>
  /\ \A i, j \in 1..Len(ingredients) :
       i # j => Trim(ToLowerCase(ingredients[i])) # Trim(ToLowerCase(ingredients[j]))

\* C13, for the lists without an empty or a repeated entry, as manual adds
\* and removals build them
C13_ManualNormalised ==
  (/\ \A k \in 1..Len(ingredients) : ingredients[k] # <<>>
   /\ \A k, l \in 1..Len(ingredients) : k # l => ingredients[k] # ingredients[l])
    => \A i, j \in 1..Len(ingredients) :
         i # j => ToLowerCase(ingredients[i]) # ToLowerCase(ingredients[j])

\* C14: every recipe handed to the UI by a search has a match score above
\* zero that is the score the matcher reported for it.
C14_ScoreIsReported ==
  \A i \in 1..Len(searchResults) :
    /\ searchResults[i].matchScore > 0
    /\ "match_score" \in DOMAIN searchResults[i]
    /\ searchResults[i].matchScore = searchResults[i].match_score

\* C20: when an image analysis completes, the ingredient list is the list as
\* it stood just before plus detected ingredients: no manual add or removal
\* made during the analysis is lost.
C20_ManualEditsKept ==
  hlast.op = "analysed"
    => /\ Len(ingredients) >= Len(hlast.before)
       /\ SubSeq(ingredients, 1, Len(hlast.before)) = hlast.before
       /\ \A k \in (Len(hlast.before) + 1)..Len(ingredients) :
            ArrayIncludes(hlast.arg, ingredients[k])

\* C15: of two consecutive get_or_compute calls with the same canonical
\* query, the second, if the entry has not expired, returns the list the
\* first returned and does not invoke the compute function.
C15_CacheIdempotent ==
  [][(/\ clast.op = "get" /\ clast'.op = "get" /\ clast'.at # clast.at
      /\ clast'.key = clast.key
      /\ clast.key \in CacheKeys /\ ~Expired(Entry(clast.key), clast'.at))
       => (clast'.result = clast.result /\ ~clast'.computed)]_vars

C15_Witness ==
  /\ clast.op = "get" /\ ~clast.computed
  /\ clast.key = <<{"egg", "flour"}, "Vegan">>
  /\ clast.result = <<[key |-> clast.key, corpus |-> corpusVersion]>>

\* C16: the cache never holds more than max_entries entries; a call that
\* inserts a new key into a full cache evicts exactly one entry, a
\* least-recently-accessed one, which is absent afterwards.
C16_EvictsLeastRecent ==
  /\ [](Cardinality(cache) <= max_entries /\ Cardinality(CacheKeys) = Cardinality(cache))
  /\ [][(/\ clast'.op = "get" /\ clast'.at # clast.at
         /\ clast'.key \notin CacheKeys
         /\ Cardinality(cache) = max_entries)
          => \E e \in cache :
               /\ \A o \in cache : e.last_access <= o.last_access
               /\ {x.key : x \in cache'} = (CacheKeys \ {e.key}) \cup {clast'.key}
               /\ clast'.evicted = {e.key}]_vars

C16_Witness ==
  /\ clast.op = "get" /\ clast.evicted = {<<{"egg"}, "">>}
  /\ Cardinality(cache) = max_entries
  /\ <<{"egg"}, "">> \notin CacheKeys

\* C17: a signed-in user always has a stored token; the failure of the
\* startup check clears only the token that was checked, not one obtained
\* by a login or sign-up meanwhile; the success of the check does not sign
\* the user in again after a sign-out.
C17_CheckClearsOnlyItsToken ==
  /\ user # "" => (authToken # "" /\ localToken # "")
  /\ (ulast.op = "checkRejected" /\ ulast.before # ulast.sent)
       => authToken = ulast.before
  /\ (ulast.op = "checkResolved" /\ ulast.before = "") => user = ""

\* C18: after a favorite toggle completed with the server value b, the view
\* it was issued from (details page or recipe card) shows the recipe as
\* favorited exactly when b is true.
C18_ShownAsServerSays ==
  flast.op = "toggled" =>
    (flast.value <=>
       IF flast.from = "page" THEN PageFavorited ELSE CardFavorited(flast.id))

\* C19: once every serving-adjustment request has completed, the recipe
\* shown is the one adjusted to the servings counter, also when the counter
\* was changed locally while a request was pending.
C19_SettledOnCounter ==
  (currentRecipe # NoRecipe /\ requests = {}
     /\ last.op \in {"resolve", "reject"})
    => currentRecipe.adjusted_servings = servings

\* C21: after the favorites page loaded the favorites, the shared favorites
\* set is exactly the set of ids the server returned, the empty set included.
C21_FavoritesReflectServer ==
  flast.op = "loaded" => favorites = flast.ids

\* C22: a request sent while no auth token is held carries no Authorization
\* header, whichever API call sends it.
C22_NoTokenNoHeader ==
  (ulast.op \in {"apiRequest", "search", "image"} /\ ulast.before = "")
    => ulast.sent = NoHeader

\* C25: a failed account deletion leaves the token (in memory and in
\* localStorage) and the user as they were; a successful one removes the
\* token and sets the user to null.
C25_DeletionClearsOnSuccessOnly ==
  /\ [](ulast.op = "deleted"
          => (user = "" /\ authToken = "" /\ localToken = ""))
  /\ [][(ulast'.op = "failed" /\ ulast'.sent = "delete")
          => (user' = user /\ authToken' = authToken
              /\ localToken' = localToken)]_vars

\* a deletion failed and the session is still there
C25_Witness ==
  ulast.op = "failed" /\ ulast.sent = "delete" /\ user # "" /\ localToken # ""

\* C23: a successful rating changes rating data only: the ingredient
\* amounts, the nutrition values, adjusted_servings and original_servings
\* shown after it are those shown before it.
C23_RatingKeepsAdjustment ==
  (glast.op = "rated" /\ glast.before.adjusted_servings # 0)
    => Shown = glast.before

\* C24: at most one rating request is in flight, a star click during a
\* pending request sends none, and once the requests have settled the user
\* rating is the one of the last request that succeeded, or the earlier one
\* when the request failed.
C24_OneRatingInFlight ==
  /\ Cardinality(ratings) <= 1
  /\ isRating <=> ratings # {}
  /\ glast.op = "rated" => userRating = glast.rating
  /\ glast.op = "rateFailed" => userRating = glast.prior

\* a star was clicked while a rating request was pending
C24_Witness ==
  glast.op = "ignored" /\ ratings # {} /\ userRating # 0

====
